---- MODULE Spec2Model ----
(***************************************************************************)
(* Model of the star-rating widget RatingBase                              *)
(* (src/src/ui/components/Rating/index.js).                                *)
(*                                                                         *)
(* The widget is a React component: its props (rating, readOnly,           *)
(* onSelectRating) are owned by the caller and may change between          *)
(* renders, its only own state is hoveringOverStar.  render() and          *)
(* renderRatings() are pure functions of props and state and are           *)
(* operators here; the DOM events (mouseenter on a star, mouseleave on the *)
(* container, click on a star) and the caller's re-renders are the         *)
(* actions.  styleSize, yellowStars and className keep their defaultProps  *)
(* values, so render() never takes its styleSize error branch.             *)
(*                                                                         *)
(* Numbers are rationals with denominator Scale: the JS number x is the    *)
(* integer x * Scale.  Scale is a multiple of 4, so every modelled value   *)
(* and both thresholds 0.25 and 0.75 are exact binary fractions and the    *)
(* floating-point comparisons of the source are exact on them.             *)
(***************************************************************************)
EXTENDS Integers, Sequences, FiniteSets

VARIABLES rating, readOnly, hasCallback, hoveringOverStar,
          lastEvent, effects, clicks, calls, errors

vars == <<rating, readOnly, hasCallback, hoveringOverStar,
          lastEvent, effects, clicks, calls, errors>>

\* ---------------------------------------------------------------- bounds
\* Number of rating steps per quarter star.
Resolution == 1
\* Number of star clicks followed in one behaviour.
MaxClicks == 2

Scale == 4 * Resolution

\* ------------------------------------------------------------- JS values
Undefined == [tag |-> "undefined", num |-> 0]
Null == [tag |-> "null", num |-> 0]
Num(k) == [tag |-> "number", num |-> k]

Stars == 1 .. 5
StarNum(s) == Num(s * Scale)

Numbers == {Num(k) : k \in 0 .. (5 * Scale)}
RatingValues == Numbers \cup {Undefined, Null}

\* JS truthiness of a rating prop: undefined, null and 0 are falsy.
Truthy(v) == v.tag = "number" /\ v.num # 0

\* `x || 0`
OrZero(v) == IF Truthy(v) THEN v ELSE Num(0)

\* ------------------------------------------------------ string conversions
DigitChar(d) == <<"0", "1", "2", "3", "4", "5", "6", "7", "8", "9">>[d + 1]

DigitVal(c) ==
  CASE c = "0" -> 0 [] c = "1" -> 1 [] c = "2" -> 2 [] c = "3" -> 3
    [] c = "4" -> 4 [] c = "5" -> 5 [] c = "6" -> 6 [] c = "7" -> 7
    [] c = "8" -> 8 [] c = "9" -> 9 [] OTHER -> -1

\* String(n) of a non-negative integer, as the value attribute of a button.
RECURSIVE ToString(_)
ToString(n) ==
  IF n < 10 THEN <<DigitChar(n)>>
  ELSE ToString(n \div 10) \o <<DigitChar(n % 10)>>

\* parseInt(str, 10): the value of the leading run of digits, NaN (-1) if
\* there is none.
RECURSIVE parseDigits(_, _, _)
parseDigits(str, i, acc) ==
  IF i > Len(str) \/ DigitVal(str[i]) < 0 THEN acc
  ELSE parseDigits(str, i + 1, 10 * acc + DigitVal(str[i]))

parseInt(str) ==
  IF Len(str) = 0 \/ DigitVal(str[1]) < 0 THEN -1
  ELSE parseDigits(str, 1, 0)

\* parseFloat(v).toFixed(1) of a non-negative number: the nearest tenth,
\* the larger one on a tie.
toFixed1(v) ==
  LET tenths == (20 * v.num + Scale) \div (2 * Scale)
  IN ToString(tenths \div 10) \o <<".">> \o <<DigitChar(tenths % 10)>>

\* ------------------------------------------------------------ renderTitle
NoArg == <<>>

renderTitle_zeroIsRating(r, ro, starRating) ==
  IF ro
  THEN IF r.tag = "number"
       THEN [msgid |-> "Rated %(rating)s out of 5", arg |-> toFixed1(r)]
       ELSE [msgid |-> "There are no ratings yet", arg |-> NoArg]
  ELSE IF r.tag = "number"
       THEN IF starRating = r
            THEN [msgid |-> "Rated %(rating)s out of 5", arg |-> toFixed1(r)]
            ELSE [msgid |-> "Update your rating to %(starRating)s out of 5",
                  arg |-> ToString(starRating.num \div Scale)]
       ELSE [msgid |-> "Rate this add-on %(starRating)s out of 5",
             arg |-> ToString(starRating.num \div Scale)]

renderTitle_truncates(r, ro, starRating) ==
  IF ro
  THEN IF Truthy(r)
       THEN [msgid |-> "Rated %(rating)s out of 5", arg |-> toFixed1(r)]
       ELSE [msgid |-> "There are no ratings yet", arg |-> NoArg]
  ELSE IF Truthy(r)
       THEN IF starRating.num \div Scale = r.num \div Scale
            THEN [msgid |-> "Rated %(rating)s out of 5", arg |-> toFixed1(r)]
            ELSE [msgid |-> "Update your rating to %(starRating)s out of 5",
                  arg |-> ToString(starRating.num \div Scale)]
       ELSE [msgid |-> "Rate this add-on %(starRating)s out of 5",
             arg |-> ToString(starRating.num \div Scale)]

\* The title of one star (editable) or of the whole widget (read-only).
\* In the editable branch starRating is a star number (the invariant() of
\* the source), never null.
renderTitle(r, ro, starRating) ==
  IF ro
  THEN IF Truthy(r)
       THEN [msgid |-> "Rated %(rating)s out of 5", arg |-> toFixed1(r)]
       ELSE [msgid |-> "There are no ratings yet", arg |-> NoArg]
  ELSE IF Truthy(r)
       THEN IF starRating = r
            THEN [msgid |-> "Rated %(rating)s out of 5", arg |-> toFixed1(r)]
            ELSE [msgid |-> "Update your rating to %(starRating)s out of 5",
                  arg |-> ToString(starRating.num \div Scale)]
       ELSE [msgid |-> "Rate this add-on %(starRating)s out of 5",
             arg |-> ToString(starRating.num \div Scale)]

\* ---------------------------------------------------------- renderRatings
isLoading_nullToo == rating \in {Undefined, Null}

\* The rating is still loading when it is undefined (null: loaded, empty).
isLoading == rating = Undefined

isSelected_strict(thisRating, r, hover) ==
  IF hover # Null
  THEN thisRating.num <= hover.num
  ELSE 4 * (thisRating.num - r.num) < Scale

\* isSelected of one star: thisRating - rating <= 0.25, overridden by the
\* hovered star when there is one.
isSelected(thisRating, r, hover) ==
  IF hover # Null
  THEN thisRating.num <= hover.num
  ELSE 4 * (thisRating.num - r.num) <= Scale

\* 'Rating-half-star': thisRating - rating > 0.25 && thisRating - rating <= 0.75
isHalfStar(thisRating, r) ==
  /\ 4 * (thisRating.num - r.num) > Scale
  /\ 4 * (thisRating.num - r.num) <= 3 * Scale

StarClassName(s) ==
  <<"Rating-rating-1", "Rating-rating-2", "Rating-rating-3",
    "Rating-rating-4", "Rating-rating-5">>[s]

\* makeClassName(...names, {name: flag}): the names whose flag is true.
makeClassName(names, flags) ==
  names \cup {n \in DOMAIN flags : flags[n]}

NoHandler == "undefined"

\* The element rendered for star s.
renderStar(s) ==
  LET r == OrZero(rating)
      thisRating == StarNum(s)
  IN [tagName |-> IF readOnly THEN "div" ELSE "button",
      value |-> IF readOnly THEN <<>> ELSE ToString(s),
      className |->
        makeClassName({"Rating-star", StarClassName(s)},
          [n \in {"Rating-selected-star", "Rating-half-star"} |->
             IF n = "Rating-selected-star"
             THEN isSelected(thisRating, r, hoveringOverStar)
             ELSE isHalfStar(thisRating, r)]),
      onClick |-> IF ~readOnly /\ ~isLoading
                  THEN "onSelectRating" ELSE NoHandler,
      onMouseEnter |-> "onHoverStar",
      title |-> renderTitle(r, readOnly, thisRating)]

renderRatings == [s \in Stars |-> renderStar(s)]

\* --------------------------------------------------------------- render
NoDescription == [msgid |-> "null", arg |-> NoArg]

render ==
  LET description == IF readOnly
                     THEN renderTitle(rating, readOnly, Null)
                     ELSE NoDescription
  IN [className |->
        makeClassName({"Rating", "Rating--large"},
          [n \in {"Rating--editable", "Rating--loading",
                  "Rating--yellowStars"} |->
             IF n = "Rating--editable" THEN ~readOnly
             ELSE IF n = "Rating--loading" THEN isLoading
             ELSE FALSE]),
      title |-> description,
      onMouseLeave |-> "stopHovering",
      children |-> renderRatings,
      hidden |-> description]

\* ------------------------------------------------------------- handlers
Effect(kind, value) == [kind |-> kind, value |-> value]

onHoverStar_unguarded(star) ==
  hoveringOverStar' = StarNum(star)

onHoverStar(star) ==
  IF readOnly
  THEN hoveringOverStar' = hoveringOverStar
  ELSE hoveringOverStar' = StarNum(star)

stopHovering ==
  IF readOnly
  THEN hoveringOverStar' = hoveringOverStar
  ELSE hoveringOverStar' = Null

onSelectRating_logLast(value, cb) ==
  LET n == parseInt(value)
      head == <<Effect("event.preventDefault", 0),
                Effect("event.stopPropagation", 0)>>
  IN IF ~cb
     THEN head \o <<Effect("log.debug", n), Effect("throw Error", 0)>>
     ELSE head \o <<Effect("props.onSelectRating", n), Effect("log.debug", n)>>

onSelectRating_silent(value, cb) ==
  LET n == parseInt(value)
      head == <<Effect("event.preventDefault", 0),
                Effect("event.stopPropagation", 0),
                Effect("log.debug", n)>>
  IN IF ~cb
     THEN head
     ELSE head \o <<Effect("props.onSelectRating", n)>>

\* The click handler of a star button: what it does to the event, the
\* logger and the caller, in order; value is the button's value attribute.
onSelectRating(value, cb) ==
  LET n == parseInt(value)
      head == <<Effect("event.preventDefault", 0),
                Effect("event.stopPropagation", 0),
                Effect("log.debug", n)>>
  IN IF ~cb
     THEN head \o <<Effect("throw Error", 0)>>
     ELSE head \o <<Effect("props.onSelectRating", n)>>

Count(seq, kind) == Cardinality({i \in DOMAIN seq : seq[i].kind = kind})

\* ----------------------------------------------------------------- Init
Event(op, star) == [op |-> op, star |-> star]

Init ==
  /\ rating \in RatingValues
  /\ readOnly \in BOOLEAN
  /\ hasCallback \in BOOLEAN
  /\ hoveringOverStar = Null
  /\ lastEvent = Event("constructor", 0)
  /\ effects = <<>>
  /\ clicks = 0
  /\ calls = 0
  /\ errors = 0

\* -------------------------------------------------------------- actions
\* The caller renders the widget again with another rating.
SetRating(v) ==
  /\ v # rating
  /\ rating' = v
  /\ lastEvent' = Event("props", 0)
  /\ effects' = <<>>
  /\ UNCHANGED <<readOnly, hasCallback, hoveringOverStar, clicks, calls, errors>>

\* The caller renders the widget again with readOnly toggled.
SetReadOnly ==
  /\ readOnly' = ~readOnly
  /\ lastEvent' = Event("props", 0)
  /\ effects' = <<>>
  /\ UNCHANGED <<rating, hasCallback, hoveringOverStar, clicks, calls, errors>>

\* The caller renders the widget again with or without onSelectRating.
SetOnSelectRating ==
  /\ hasCallback' = ~hasCallback
  /\ lastEvent' = Event("props", 0)
  /\ effects' = <<>>
  /\ UNCHANGED <<rating, readOnly, hoveringOverStar, clicks, calls, errors>>

\* The pointer enters star s: its onMouseEnter calls onHoverStar(s).
MouseEnter(s) ==
  /\ onHoverStar(s)
  /\ lastEvent' = Event("onHoverStar", s)
  /\ effects' = <<>>
  /\ UNCHANGED <<rating, readOnly, hasCallback, clicks, calls, errors>>

\* The pointer leaves the container: its onMouseLeave calls stopHovering().
MouseLeave ==
  /\ stopHovering
  /\ lastEvent' = Event("stopHovering", 0)
  /\ effects' = <<>>
  /\ UNCHANGED <<rating, readOnly, hasCallback, clicks, calls, errors>>

\* The user clicks star s: the onClick of the rendered element runs, if the
\* element has one.
Click(s) ==
  /\ clicks < MaxClicks
  /\ clicks' = clicks + 1
  /\ lastEvent' = Event("click", s)
  /\ effects' = IF renderRatings[s].onClick = "onSelectRating"
                THEN onSelectRating(renderRatings[s].value, hasCallback)
                ELSE <<>>
  /\ calls' = calls + Count(effects', "props.onSelectRating")
  /\ errors' = errors + Count(effects', "throw Error")
  /\ UNCHANGED <<rating, readOnly, hasCallback, hoveringOverStar>>

Next ==
  \/ \E v \in RatingValues : SetRating(v)
  \/ SetReadOnly
  \/ SetOnSelectRating
  \/ \E s \in Stars : MouseEnter(s)
  \/ MouseLeave
  \/ \E s \in Stars : Click(s)

Spec == Init /\ [][Next]_vars

\* ------------------------------------------------------ rendered output
Selected(s) == "Rating-selected-star" \in renderRatings[s].className
Half(s) == "Rating-half-star" \in renderRatings[s].className
SelectedStars == {s \in Stars : Selected(s)}
HalfStars == {s \in Stars : Half(s)}

TypeOK ==
  /\ rating \in RatingValues
  /\ readOnly \in BOOLEAN
  /\ hasCallback \in BOOLEAN
  /\ hoveringOverStar \in {Null} \cup {StarNum(s) : s \in Stars}
  /\ clicks \in 0 .. MaxClicks
  /\ calls \in 0 .. MaxClicks
  /\ errors \in 0 .. MaxClicks

\* -------------------------------------------------- expected renderings
RatedMsg == "Rated %(rating)s out of 5"
NoRatingsMsg == "There are no ratings yet"
UpdateMsg == "Update your rating to %(starRating)s out of 5"
RateMsg == "Rate this add-on %(starRating)s out of 5"

\* r = rating or 0, in units of 1/Scale.
R == IF rating.tag = "number" THEN rating.num ELSE 0

\* The no-hover formula: s - r <= 0.25, and 0.25 < s - r <= 0.75.
NoHoverSelected == {s \in Stars : 4 * (s * Scale - R) <= Scale}
NoHoverHalf ==
  {s \in Stars : 4 * (s * Scale - R) > Scale /\ 4 * (s * Scale - R) <= 3 * Scale}

Min(a, b) == IF a < b THEN a ELSE b
Max(a, b) == IF a > b THEN a ELSE b

\* floor(r + 0.25) clamped to [0, 5]
FloorQuarter == Min(5, Max(0, (4 * R + Scale) \div (4 * Scale)))

ClickHandled == lastEvent.op = "click" /\ ~readOnly /\ ~isLoading

\* ----------------------------------------------------------------- C1
\* C1: while a star h is hovered in editable mode, star s is selected iff
\* s <= h and no star carries the half-star class, whatever the rating.
C1_HoverSelectsNoHalf ==
  (~readOnly /\ hoveringOverStar # Null) =>
    \A s \in Stars :
      /\ Selected(s) <=> (s * Scale <= hoveringOverStar.num)
      /\ ~Half(s)

\* ----------------------------------------------------------------- C2
\* C2: whenever the widget is rendered read-only, the selected stars are
\* those given by the rating alone (s - r <= 0.25), whatever was hovered
\* while the widget was editable.
C2_ReadOnlyIgnoresHover ==
  readOnly => SelectedStars = NoHoverSelected

\* ----------------------------------------------------------------- C3
\* C3: after stopHovering() the hover state is null and the render equals
\* the no-hover render, from every reachable state.
C3_StopHoveringResets ==
  lastEvent.op = "stopHovering" =>
    /\ hoveringOverStar = Null
    /\ SelectedStars = NoHoverSelected
    /\ HalfStars = NoHoverHalf

\* ----------------------------------------------------------------- C4
\* C4: with no hover, exactly floor(r + 0.25) stars (clamped to [0,5]) are
\* selected, they are stars 1..floor(r + 0.25), and at most one star is
\* half, a star s with 0.25 < s - r <= 0.75.
C4_SelectedCount ==
  hoveringOverStar = Null =>
    /\ Cardinality(SelectedStars) = FloorQuarter
    /\ SelectedStars = 1 .. FloorQuarter
    /\ Cardinality(HalfStars) <= 1
    /\ HalfStars = NoHoverHalf
    /\ HalfStars \cap SelectedStars = {}

C4_Witness ==
  /\ hoveringOverStar = Null
  /\ readOnly
  /\ lastEvent.op = "props"
  /\ 2 * rating.num = 7 * Scale
  /\ SelectedStars = {1, 2, 3}
  /\ HalfStars = {4}
  /\ render.title.arg = <<"3", ".", "5">>

\* ----------------------------------------------------------------- C5
\* C5: in read-only mode no star has a click handler, and onHoverStar(s)
\* and stopHovering() leave the hover state as it was.
C5_ReadOnlyInert ==
  /\ [](readOnly => \A s \in Stars : renderRatings[s].onClick = NoHandler)
  /\ [][(readOnly /\ lastEvent'.op \in {"onHoverStar", "stopHovering"})
          => hoveringOverStar' = hoveringOverStar]_vars

C5_Witness ==
  /\ readOnly
  /\ lastEvent.op = "onHoverStar"
  /\ hoveringOverStar # StarNum(lastEvent.star)
  /\ \A s \in Stars : renderRatings[s].onClick = NoHandler

\* ----------------------------------------------------------------- C6
\* C6 as stated: every click on star s of an editable widget with a
\* callback suppresses the event's default action and propagation, logs s,
\* then calls the callback with the integer s, each once and in this order;
\* the callback is called only by a click and at most once per click.
C6_Original ==
  /\ (lastEvent.op = "click" /\ ~readOnly /\ hasCallback) =>
       effects = <<Effect("event.preventDefault", 0),
                   Effect("event.stopPropagation", 0),
                   Effect("log.debug", lastEvent.star),
                   Effect("props.onSelectRating", lastEvent.star)>>
  /\ calls <= clicks
  /\ Count(effects, "props.onSelectRating") > 0 => lastEvent.op = "click"

\* C6 amended: every click on star s of an editable widget with a callback
\* whose rating is not loading (not undefined) suppresses the event's
\* default action and propagation, logs s, then calls the callback with
\* the integer s, each once and in this order; a click while the rating is
\* loading does none of these; the callback is called only by a click and
\* at most once per click.
C6_ClickOrder ==
  /\ []((lastEvent.op = "click" /\ ~readOnly /\ isLoading) => effects = <<>>)
  /\ []((ClickHandled /\ hasCallback) =>
          effects = <<Effect("event.preventDefault", 0),
                      Effect("event.stopPropagation", 0),
                      Effect("log.debug", lastEvent.star),
                      Effect("props.onSelectRating", lastEvent.star)>>)
  /\ [](calls <= clicks)
  /\ [][calls' # calls =>
          /\ lastEvent'.op = "click"
          /\ clicks' = clicks + 1
          /\ calls' = calls + 1]_vars

C6_Witness ==
  /\ ClickHandled
  /\ hasCallback
  /\ lastEvent.star = 5
  /\ Len(effects) = 4
  /\ effects[4] = Effect("props.onSelectRating", 5)
  /\ calls = clicks
  /\ calls = MaxClicks

\* ----------------------------------------------------------------- C7
\* C7: the loading flag is set iff the rating is undefined; while loading
\* no star has a click handler, each star keeps its hover-enter handler,
\* and no event invokes the caller's callback.
C7_LoadingNoSelection ==
  /\ [](("Rating--loading" \in render.className) <=> (rating = Undefined))
  /\ [](rating = Undefined =>
          \A s \in Stars :
            /\ renderRatings[s].onClick = NoHandler
            /\ renderRatings[s].onMouseEnter = "onHoverStar")
  /\ [][rating = Undefined => calls' = calls]_vars

C7_Witness ==
  /\ rating = Undefined
  /\ ~readOnly
  /\ hasCallback
  /\ lastEvent.op = "click"
  /\ hoveringOverStar # Null
  /\ clicks = MaxClicks
  /\ calls = 0
  /\ "Rating--loading" \in render.className

\* ----------------------------------------------------------------- C8
\* C8 as stated: every click on a star of an editable widget without a
\* configured callback raises the configuration error and calls no
\* callback (the hover state is left alone).
C8_Original ==
  (lastEvent.op = "click" /\ ~readOnly /\ ~hasCallback) =>
    /\ Len(effects) > 0
    /\ effects[Len(effects)] = Effect("throw Error", 0)
    /\ Count(effects, "throw Error") = 1
    /\ Count(effects, "props.onSelectRating") = 0

\* C8 amended: every click on a star of an editable widget without a
\* configured callback whose rating is not loading (not undefined) raises
\* the configuration error, calls no callback and leaves the hover state
\* alone; a click while the rating is loading raises nothing.
C8_MissingCallbackThrows ==
  /\ [][(lastEvent'.op = "click" /\ clicks' # clicks
         /\ ~readOnly /\ isLoading /\ ~hasCallback) =>
          /\ errors' = errors
          /\ calls' = calls
          /\ effects' = <<>>
          /\ hoveringOverStar' = hoveringOverStar]_vars
  /\ []((ClickHandled /\ ~hasCallback) =>
          /\ Len(effects) > 0
          /\ effects[Len(effects)] = Effect("throw Error", 0)
          /\ Count(effects, "throw Error") = 1
          /\ Count(effects, "props.onSelectRating") = 0)
  /\ [][(lastEvent'.op = "click" /\ clicks' # clicks
         /\ ~readOnly /\ ~isLoading /\ ~hasCallback) =>
          /\ errors' = errors + 1
          /\ calls' = calls
          /\ hoveringOverStar' = hoveringOverStar]_vars

C8_Witness ==
  /\ ClickHandled
  /\ ~hasCallback
  /\ hoveringOverStar # Null
  /\ errors = MaxClicks
  /\ calls = 0

\* ----------------------------------------------------------------- C9
\* C9 as stated: read-only, the description is "Rated X out of 5" for
\* every number in [0,5] and "There are no ratings yet" exactly for
\* undefined and null; editable, there is no description.
C9_Original ==
  /\ readOnly =>
       /\ render.title.msgid = RatedMsg <=> rating.tag = "number"
       /\ render.title.msgid = NoRatingsMsg <=> rating \in {Undefined, Null}
       /\ render.hidden = render.title
  /\ ~readOnly => (render.title = NoDescription /\ render.hidden = NoDescription)

\* C9 amended: read-only, the description is "Rated X out of 5" (X to one
\* decimal) for every non-zero number in (0,5] and "There are no ratings
\* yet" exactly for undefined, null and 0; editable, there is no
\* description.
C9_Amended ==
  /\ readOnly =>
       /\ render.title.msgid = RatedMsg <=> (rating.tag = "number" /\ rating.num # 0)
       /\ render.title.msgid = NoRatingsMsg <=> rating \in {Undefined, Null, Num(0)}
       /\ render.title.msgid = RatedMsg => render.title.arg = toFixed1(rating)
       /\ render.hidden = render.title
  /\ ~readOnly => (render.title = NoDescription /\ render.hidden = NoDescription)

C9_Witness ==
  /\ readOnly
  /\ lastEvent.op = "props"
  /\ rating = Num(0)
  /\ render.title.msgid = NoRatingsMsg
  /\ render.hidden.msgid = NoRatingsMsg

\* ---------------------------------------------------------------- C10
\* C10 as stated: editable, star N is titled "Rated X out of 5" iff the
\* rating is a number and N equals it, "Update your rating to N out of 5"
\* iff the rating is a number and N differs from it, "Rate this add-on N
\* out of 5" iff there is no rating (undefined or null); the hover state
\* plays no part.
C10_Original ==
  ~readOnly =>
    \A s \in Stars :
      LET title == renderRatings[s].title
      IN /\ title.msgid = RatedMsg <=>
              (rating.tag = "number" /\ rating.num = s * Scale)
         /\ title.msgid = UpdateMsg <=>
              (rating.tag = "number" /\ rating.num # s * Scale)
         /\ title.msgid = RateMsg <=> rating \in {Undefined, Null}

\* C10 amended: editable, star N is titled "Rated X out of 5" iff the
\* rating is a non-zero number and N equals it, "Update your rating to N
\* out of 5" iff the rating is a non-zero number and N differs from it,
\* "Rate this add-on N out of 5" iff the rating is undefined, null or 0;
\* the hover state plays no part.
C10_StarTitles ==
  ~readOnly =>
    \A s \in Stars :
      LET title == renderRatings[s].title
      IN /\ title.msgid = RatedMsg <=>
              (rating.tag = "number" /\ rating.num # 0 /\ rating.num = s * Scale)
         /\ title.msgid = UpdateMsg <=>
              (rating.tag = "number" /\ rating.num # 0 /\ rating.num # s * Scale)
         /\ title.msgid = RateMsg <=> rating \in {Undefined, Null, Num(0)}
         /\ title.msgid = RatedMsg => title.arg = toFixed1(rating)
         /\ title.msgid \in {UpdateMsg, RateMsg} => title.arg = <<DigitChar(s)>>

C10_Witness ==
  /\ ~readOnly
  /\ rating = Num(4 * Scale)
  /\ hoveringOverStar = StarNum(2)
  /\ renderRatings[4].title = [msgid |-> RatedMsg, arg |-> <<"4", ".", "0">>]
  /\ renderRatings[5].title = [msgid |-> UpdateMsg, arg |-> <<"5">>]

====
